---------------------------- MODULE Spec2Model ----------------------------
(***************************************************************************)
(* FDSampleRush: attribute-set closure, candidate keys, minimal covers and *)
(* normal-form predicates over functional dependencies whose sides are     *)
(* fixed-width binary words.                                               *)
(*                                                                         *)
(* A BinaryWord is the record [length, value]; a functional dependency is  *)
(* the pair <<lhs, rhs>>; an FD list is a sequence of such pairs.  Python's *)
(* None in an FD slot is the empty tuple.  An exception raised by a call is *)
(* the record Raise(name); a normal return is Return(value).                *)
(***************************************************************************)
EXTENDS Integers, Sequences, FiniteSets, TLC

\* Largest number of attributes of a generated relation.
NumAttrs == 3
\* Largest number of FDs in a generated FD list.
MaxFDs == 2
\* Number of further FDs, non-trivial with one attribute on the right side,
\* added to a generated list before it is given to minimize_left_explode or
\* minimize_right_explode.
ExtraFDs == 1
\* Largest number of attributes for which minimize_right_explode is also given
\* the lists with further FDs.
RightExplodeAttrs == 2
\* Largest number of attributes for which sigma_plus_limited and
\* all_minimal_covers_binary are run.
AllCoversAttrs == 2

VARIABLES
    num_attributes, \* FDSampleRushResult.num_attributes: width of every word
    fds,            \* FDSampleRushResult.fds: the FD list under test
    self_candidates, \* NormalFormChecker.candidates of the checker built on fds
    call,           \* the function applied to fds, with its further arguments
    ret             \* what the call returned or raised

vars == <<num_attributes, fds, self_candidates, call, ret>>

None == <<>>

Return(v) == [raised |-> "no", value |-> v]
Raise(e) == [raised |-> e, value |-> None]

-----------------------------------------------------------------------------
(* src/utils/binary_word.py *)

RECURSIVE Pow2(_)
Pow2(k) == IF k = 0 THEN 1 ELSE 2 * Pow2(k - 1)

\* Python's a & b on non-negative integers.
RECURSIVE IntAnd(_, _)
IntAnd(a, b) ==
    IF a = 0 \/ b = 0 THEN 0
    ELSE (a % 2) * (b % 2) + 2 * IntAnd(a \div 2, b \div 2)

\* Python's a | b on non-negative integers.
RECURSIVE IntOr(_, _)
IntOr(a, b) ==
    IF a = 0 THEN b
    ELSE IF b = 0 THEN a
    ELSE (IF a % 2 = 1 \/ b % 2 = 1 THEN 1 ELSE 0) + 2 * IntOr(a \div 2, b \div 2)

\* Python's a ^ b on non-negative integers.
RECURSIVE IntXor(_, _)
IntXor(a, b) ==
    IF a = 0 THEN b
    ELSE IF b = 0 THEN a
    ELSE (IF a % 2 # b % 2 THEN 1 ELSE 0) + 2 * IntXor(a \div 2, b \div 2)

\* BinaryWord.__init__: the value is masked to the length.
BinaryWord(length, value) == [length |-> length, value |-> value % Pow2(length)]

\* BinaryWord.get_bit: a position outside 0 .. length - 1 raises ValueError.
get_bit(w, position) ==
    IF ~(0 <= position /\ position < w.length) THEN Raise("ValueError")
    ELSE (w.value \div Pow2(position)) % 2

\* word[i]: BinaryWord defines no __getitem__, so the subscript raises
\* TypeError ('BinaryWord' object is not subscriptable).
getitem(w, i) == Raise("TypeError")

\* BinaryWord.set_bit: a position outside 0 .. length - 1 or a bit other than
\* 0 and 1 raises ValueError.
set_bit(w, position, bit) ==
    IF ~(0 <= position /\ position < w.length) THEN Raise("ValueError")
    ELSE IF bit \notin {0, 1} THEN Raise("ValueError")
    ELSE BinaryWord(w.length,
                    w.value - get_bit(w, position) * Pow2(position) + bit * Pow2(position))

\* BinaryWord.flip_bit: a position outside 0 .. length - 1 raises ValueError.
flip_bit(w, position) ==
    IF ~(0 <= position /\ position < w.length) THEN Raise("ValueError")
    ELSE BinaryWord(w.length, IntXor(w.value, Pow2(position)))

\* BinaryWord.pop_count
RECURSIVE PopCountInt(_)
PopCountInt(byte) == IF byte = 0 THEN 0 ELSE (byte % 2) + PopCountInt(byte \div 2)

pop_count(w) == PopCountInt(w.value)

\* BinaryWord.ones
ones(w) == BinaryWord(w.length, Pow2(w.length) - 1)

\* self | other computed as self ^ other.
bw_or_as_xor(a, b) == BinaryWord(a.length, IntXor(a.value, b.value))

\* BinaryWord.__and__ and BinaryWord.__or__: the left operand's length is kept.
bw_and(a, b) == BinaryWord(a.length, IntAnd(a.value, b.value))
bw_or(a, b) == BinaryWord(a.length, IntOr(a.value, b.value))

\* BinaryWord.__xor__: the left operand's length is kept.
bw_xor(a, b) == BinaryWord(a.length, IntXor(a.value, b.value))

\* BinaryWord.__eq__ and BinaryWord.__lt__ compare the values only.
bw_eq(a, b) == a.value = b.value
bw_lt(a, b) == a.value < b.value

-----------------------------------------------------------------------------
(* src/func_dependencies/utils.py *)

\* is_subset_of
is_subset_of(left_attributes, right_attributes) ==
    bw_eq(bw_and(left_attributes, right_attributes), left_attributes)

\* is_proper_subset_of
is_proper_subset_of(left_attributes, right_attributes) ==
    /\ bw_eq(bw_and(left_attributes, right_attributes), left_attributes)
    /\ bw_lt(left_attributes, right_attributes)

\* (left_side, right_side) in exclude: the set looks the tuple up by its hash,
\* which BinaryWord.__hash__ takes from the value and the length, and then
\* compares by value; so a member matches when both words have the FD's
\* values and lengths.
InExclude(fd, exclude) ==
    \E e \in exclude :
        /\ e[1].length = fd[1].length /\ e[2].length = fd[2].length
        /\ bw_eq(e[1], fd[1]) /\ bw_eq(e[2], fd[2])

\* A pass of attribute_closure that stops at the first FD whose left side is
\* inside the closure, whether or not it adds an attribute.
RECURSIVE ClosureScan_first_applicable(_, _, _, _)
ClosureScan_first_applicable(attr_closure, fdl, exclude, i) ==
    IF i > Len(fdl) THEN attr_closure
    ELSE IF fdl[i] = None THEN ClosureScan_first_applicable(attr_closure, fdl, exclude, i + 1)
    ELSE IF InExclude(fdl[i], exclude)
         THEN ClosureScan_first_applicable(attr_closure, fdl, exclude, i + 1)
    ELSE IF bw_eq(bw_and(fdl[i][1], attr_closure), fdl[i][1])
         THEN bw_or(attr_closure, fdl[i][2])
         ELSE ClosureScan_first_applicable(attr_closure, fdl, exclude, i + 1)

\* One pass of the for loop of attribute_closure, from index i on.
RECURSIVE ClosureScan(_, _, _, _)
ClosureScan(attr_closure, fdl, exclude, i) ==
    IF i > Len(fdl) THEN attr_closure
    ELSE IF fdl[i] = None THEN ClosureScan(attr_closure, fdl, exclude, i + 1)
    ELSE IF InExclude(fdl[i], exclude) THEN ClosureScan(attr_closure, fdl, exclude, i + 1)
    ELSE IF bw_eq(bw_and(fdl[i][1], attr_closure), fdl[i][1])
         THEN ClosureScan(bw_or(attr_closure, fdl[i][2]), fdl, exclude, i + 1)
         ELSE ClosureScan(attr_closure, fdl, exclude, i + 1)

\* attribute_closure that scans the FD list once instead of until nothing changes.
ClosureLoop_single_scan(attr_closure, fdl, exclude, scans) ==
    [closure |-> ClosureScan(attr_closure, fdl, exclude, 1), scans |-> scans + 1]

\* The while loop of attribute_closure: scans is the number of passes made.
RECURSIVE ClosureLoop(_, _, _, _)
ClosureLoop(attr_closure, fdl, exclude, scans) ==
    LET next == ClosureScan(attr_closure, fdl, exclude, 1)
    IN  IF ~bw_eq(next, attr_closure)
        THEN ClosureLoop(next, fdl, exclude, scans + 1)
        ELSE [closure |-> attr_closure, scans |-> scans + 1]

\* attribute_closure; exclude=None is the empty set.
attribute_closure(attribute_set, fdl, exclude) ==
    ClosureLoop(attribute_set, fdl, exclude, 0).closure

\* is_superkey that compares the attribute set itself, not its closure.
is_superkey_without_closure(attribute_set, fdl) ==
    bw_eq(attribute_set,
          BinaryWord(attribute_set.length, Pow2(attribute_set.length) - 1))

\* is_superkey
is_superkey(attribute_set, fdl) ==
    bw_eq(attribute_closure(attribute_set, fdl, {}),
          BinaryWord(attribute_set.length, Pow2(attribute_set.length) - 1))

\* non_trivial
non_trivial(fdl) == SelectSeq(fdl, LAMBDA fd : ~is_subset_of(fd[2], fd[1]))

\* itertools.combinations(range(n), c), as the set of index sets.
Combinations(n, c) == {s \in SUBSET (0 .. n - 1) : Cardinality(s) = c}

\* The word built by set_bit(index, 1) for every index of a combination.
RECURSIVE WordOfIndices(_, _)
WordOfIndices(n, indices) ==
    IF indices = {} THEN BinaryWord(n, 0)
    ELSE LET index == CHOOSE x \in indices : TRUE
         IN  set_bit(WordOfIndices(n, indices \ {index}), index, 1)

\* attribute_combinations that ignores exclude.
attribute_combinations_unpruned(n, c, exclude) ==
    {WordOfIndices(n, indices) : indices \in Combinations(n, c)}

\* attribute_combinations
attribute_combinations(n, c, exclude) ==
    {w \in {WordOfIndices(n, indices) : indices \in Combinations(n, c)} :
        \A word \in exclude : ~is_subset_of(word, w)}

\* The loop "for i in range(num_attrs)" of candidate_keys, from size i on.
RECURSIVE CandidateKeysFrom(_, _, _, _)
CandidateKeysFrom(i, num_attrs, non_trivial_fds, candidates) ==
    IF i >= num_attrs THEN candidates
    ELSE LET attr_set_comb == attribute_combinations(num_attrs, i, candidates)
             found == {attr_set \in attr_set_comb : is_superkey(attr_set, non_trivial_fds)}
         IN  CandidateKeysFrom(i + 1, num_attrs, non_trivial_fds, candidates \cup found)

\* candidate_keys: fds[0] of an empty list raises IndexError.
candidate_keys(fdl) ==
    LET non_trivial_fds == non_trivial(fdl)
    IN  IF Len(non_trivial_fds) = 0
        THEN IF Len(fdl) = 0 THEN Raise("IndexError")
             ELSE Return({ones(fdl[1][1])})
        ELSE Return(CandidateKeysFrom(0, fdl[1][1].length, non_trivial_fds, {}))

\* drop_dependencies, the loop over the bits of one right side from i on: one
\* FD per set bit, lowest bit first. right[i] raises, and the exception leaves
\* the function.
RECURSIVE DropBits(_, _, _)
DropBits(left, right, i) ==
    IF i >= right.length THEN Return(<<>>)
    ELSE LET bit == getitem(right, i)
         IN  IF bit.raised # "no" THEN bit
             ELSE LET rest == DropBits(left, right, i + 1)
                  IN  IF rest.raised # "no" THEN rest
                      ELSE Return((IF bit.value = 1
                                   THEN <<<<left, BinaryWord(right.length, Pow2(i))>>>>
                                   ELSE <<>>) \o rest.value)

\* drop_dependencies: what it returns or raises.
RECURSIVE drop_dependencies(_)
drop_dependencies(fdl) ==
    IF fdl = <<>> THEN Return(<<>>)
    ELSE LET first == DropBits(fdl[1][1], fdl[1][2], 0)
         IN  IF first.raised # "no" THEN first
             ELSE LET rest == drop_dependencies(Tail(fdl))
                  IN  IF rest.raised # "no" THEN rest
                      ELSE Return(first.value \o rest.value)

ToSet(s) == {s[i] : i \in 1 .. Len(s)}

\* Every order in which the elements of a set can be listed.
RECURSIVE Perms(_)
Perms(S) ==
    IF S = {} THEN {<<>>}
    ELSE UNION {{<<x>> \o p : p \in Perms(S \ {x})} : x \in S}

\* The list a set built from one fixed insertion order iterates as: an
\* unspecified order that is the same for the same set.
RECURSIVE SetOrder(_)
SetOrder(S) ==
    IF S = {} THEN <<>>
    ELSE LET x == CHOOSE y \in S : TRUE
         IN  <<x>> \o SetOrder(S \ {x})

\* The loop over the bit positions i of one FD in minimize_left: new_fds after
\* the loop, or the exception that left[i] raises.
RECURSIVE MinimizeLeftBits(_, _, _, _, _)
MinimizeLeftBits(new_fds, word_index, left, right, i) ==
    IF i >= left.length THEN Return(new_fds)
    ELSE LET bit == getitem(left, i)
         IN  IF bit.raised # "no" THEN bit
             ELSE IF bit.value = 0
                  THEN MinimizeLeftBits(new_fds, word_index, left, right, i + 1)
             ELSE LET exc_closure == attribute_closure(flip_bit(left, i), new_fds, {})
                  IN  IF is_subset_of(right, exc_closure)
                      THEN LET left_new == set_bit(left, i, 0)
                           IN  MinimizeLeftBits(
                                   [new_fds EXCEPT ![word_index] = <<left_new, right>>],
                                   word_index, left_new, right, i + 1)
                      ELSE MinimizeLeftBits(new_fds, word_index, left, right, i + 1)

\* The loop over word_index in minimize_left: a left side of one attribute is
\* skipped before any bit is read.
RECURSIVE MinimizeLeftWords(_, _)
MinimizeLeftWords(new_fds, word_index) ==
    IF word_index > Len(new_fds) THEN Return(new_fds)
    ELSE IF pop_count(new_fds[word_index][1]) = 1
         THEN MinimizeLeftWords(new_fds, word_index + 1)
    ELSE LET minimized == MinimizeLeftBits(new_fds, word_index, new_fds[word_index][1],
                                           new_fds[word_index][2], 0)
         IN  IF minimized.raised # "no" THEN minimized
             ELSE MinimizeLeftWords(minimized.value, word_index + 1)

\* minimize_left up to its last statement: the set unique_fds.
minimize_left_unique(fdl) ==
    LET new_fds == MinimizeLeftWords(fdl, 1)
    IN  IF new_fds.raised # "no" THEN new_fds ELSE Return(ToSet(new_fds.value))

\* minimize_left: the outcomes it can have, unique_fds being listed in the
\* order the set iterates.
minimize_left(fdl) ==
    LET unique_fds == minimize_left_unique(fdl)
    IN  IF unique_fds.raised # "no" THEN {unique_fds}
        ELSE {Return(listed) : listed \in Perms(unique_fds.value)}

\* The loop of minimize_right.
RECURSIVE MinimizeRightFrom(_, _)
MinimizeRightFrom(new_fds, i) ==
    IF i > Len(new_fds) THEN new_fds
    ELSE LET left == new_fds[i][1]
             right == new_fds[i][2]
             closure_exclude == attribute_closure(left, new_fds, {<<left, right>>})
         IN  IF is_subset_of(right, closure_exclude)
             THEN MinimizeRightFrom([new_fds EXCEPT ![i] = None], i + 1)
             ELSE MinimizeRightFrom(new_fds, i + 1)

NotNone(s) == SelectSeq(s, LAMBDA x : x # None)

\* minimize_right
minimize_right(fdl) == NotNone(MinimizeRightFrom(non_trivial(fdl), 1))

\* itertools.combinations(items, k) for a list items, in the order it yields.
RECURSIVE CombSeq(_, _)
CombSeq(items, k) ==
    IF k = 0 THEN <<<<>>>>
    ELSE IF Len(items) < k THEN <<>>
    ELSE LET with == CombSeq(Tail(items), k - 1)
         IN  [j \in 1 .. Len(with) |-> <<Head(items)>> \o with[j]]
             \o CombSeq(Tail(items), k)

\* [i for i in range(len(left)) if left[i] == 1], from i on
RECURSIVE AttrIndices(_, _)
AttrIndices(left, i) ==
    IF i >= left.length THEN Return(<<>>)
    ELSE LET bit == getitem(left, i)
         IN  IF bit.raised # "no" THEN bit
             ELSE LET rest == AttrIndices(left, i + 1)
                  IN  IF rest.raised # "no" THEN rest
                      ELSE Return((IF bit.value = 1 THEN <<i>> ELSE <<>>) \o rest.value)

\* sum(2 ** index for index in subset)
RECURSIVE SumPow2(_)
SumPow2(subset) == IF subset = <<>> THEN 0 ELSE Pow2(Head(subset)) + SumPow2(Tail(subset))

\* The subsets tried by minimize_left_explode, sizes num_attribute_selected.. up.
RECURSIVE SubsetsTried(_, _)
SubsetsTried(attr_indices, num_attribute_selected) ==
    IF num_attribute_selected > Len(attr_indices) THEN <<>>
    ELSE CombSeq(attr_indices, num_attribute_selected)
         \o SubsetsTried(attr_indices, num_attribute_selected + 1)

\* The two nested loops that fill possible_minimal_fd_replacement.
RECURSIVE ReplacementScan(_, _, _, _, _)
ReplacementScan(subsets, length, right, fd_list_variant, possible) ==
    IF subsets = <<>> THEN possible
    ELSE LET new_left == BinaryWord(length, SumPow2(Head(subsets)))
             skip == \E k \in 1 .. Len(possible) : is_subset_of(possible[k], new_left)
         IN  IF skip
             THEN ReplacementScan(Tail(subsets), length, right, fd_list_variant, possible)
             ELSE IF is_subset_of(right, attribute_closure(new_left, fd_list_variant, {}))
                  THEN ReplacementScan(Tail(subsets), length, right, fd_list_variant,
                                       Append(possible, new_left))
                  ELSE ReplacementScan(Tail(subsets), length, right, fd_list_variant,
                                       possible)

\* The list possible_minimal_fd_replacement of one pass over a variant, or the
\* exception that building attr_indices raises.
possible_minimal_fd_replacement(left, right, fd_list_variant) ==
    LET attr_indices == AttrIndices(left, 0)
    IN  IF attr_indices.raised # "no" THEN attr_indices
        ELSE Return(ReplacementScan(SubsetsTried(attr_indices.value, 1), left.length,
                                    right, fd_list_variant, <<>>))

\* The loop "for new_left in possible_minimal_fd_replacement" for one variant.
\* st.variants is minimized_variants, st.sets the list of hashable sets.
RECURSIVE ApplyReplacements(_, _, _, _, _, _)
ApplyReplacements(st, variant_index, i, right, possible, is_first) ==
    IF possible = <<>> THEN st
    ELSE LET new_fd == <<Head(possible), right>>
         IN  IF is_first
             THEN ApplyReplacements(
                      [variants |-> [st.variants EXCEPT ![variant_index][i] = new_fd],
                       sets |-> [st.sets EXCEPT ![variant_index] = @ \cup {new_fd}]],
                      variant_index, i, right, Tail(possible), FALSE)
             ELSE IF new_fd \in st.sets[variant_index]
                  THEN ApplyReplacements(st, variant_index, i, right, Tail(possible), FALSE)
                  ELSE ApplyReplacements(
                           [variants |-> Append(st.variants,
                                [st.variants[variant_index] EXCEPT ![i] = new_fd]),
                            sets |-> Append(st.sets, st.sets[variant_index] \cup {new_fd})],
                           variant_index, i, right, Tail(possible), FALSE)

\* The loop "for variant_index in range(num_to_process)".
RECURSIVE LeftExplodeVariants(_, _, _, _, _, _)
LeftExplodeVariants(st, variant_index, num_to_process, i, left, right) ==
    IF variant_index > num_to_process THEN Return(st)
    ELSE LET possible == possible_minimal_fd_replacement(left, right,
                                                         st.variants[variant_index])
         IN  IF possible.raised # "no" THEN possible
             ELSE LeftExplodeVariants(
                      ApplyReplacements(st, variant_index, i, right, possible.value, TRUE),
                      variant_index + 1, num_to_process, i, left, right)

\* The loop "for i in range(len(new_fds))"; new_fds is the list object that is
\* minimized_variants[0], so new_fds[i] reads st.variants[1][i].
RECURSIVE LeftExplodeFrom(_, _)
LeftExplodeFrom(st, i) ==
    IF i > Len(st.variants[1]) THEN Return(st)
    ELSE LET left == st.variants[1][i][1]
             right == st.variants[1][i][2]
         IN  IF pop_count(left) = 1
             THEN LeftExplodeFrom(
                      [st EXCEPT !.sets[1] = @ \cup {<<left, right>>}], i + 1)
             ELSE LET processed == LeftExplodeVariants(st, 1, Len(st.variants), i,
                                                       left, right)
                  IN  IF processed.raised # "no" THEN processed
                      ELSE LeftExplodeFrom(processed.value, i + 1)

\* minimize_left_explode: what it returns or raises.
minimize_left_explode(fdl) ==
    LET st == LeftExplodeFrom([variants |-> <<non_trivial(fdl)>>, sets |-> <<{}>>], 1)
    IN  IF st.raised # "no" THEN st ELSE Return(st.value.variants)

\* minimize_right_explode that drops an FD wherever dropping is valid and never
\* keeps the variant that retains it.
RECURSIVE RightExplodeStep_drop_only(_, _, _, _)
RightExplodeStep_drop_only(prev_minimized_variants, fd_index, left, right) ==
    IF prev_minimized_variants = <<>> THEN <<>>
    ELSE LET variant == Head(prev_minimized_variants)
             closure_exclude == attribute_closure(left, variant, {<<left, right>>})
         IN  (IF is_subset_of(right, closure_exclude)
              THEN <<[variant EXCEPT ![fd_index] = None]>>
              ELSE <<variant>>)
             \o RightExplodeStep_drop_only(Tail(prev_minimized_variants), fd_index,
                                           left, right)

\* The inner loop "for variant in prev_minimized_variants" of minimize_right_explode.
RECURSIVE RightExplodeStep(_, _, _, _)
RightExplodeStep(prev_minimized_variants, fd_index, left, right) ==
    IF prev_minimized_variants = <<>> THEN <<>>
    ELSE LET variant == Head(prev_minimized_variants)
             closure_exclude == attribute_closure(left, variant, {<<left, right>>})
         IN  (IF is_subset_of(right, closure_exclude)
              THEN <<[variant EXCEPT ![fd_index] = None], variant>>
              ELSE <<variant>>)
             \o RightExplodeStep(Tail(prev_minimized_variants), fd_index, left, right)

\* The loop "for fd_index in range(len(new_fds))".
RECURSIVE RightExplodeFrom(_, _, _)
RightExplodeFrom(new_fds, minimized_variants, fd_index) ==
    IF fd_index > Len(new_fds) THEN minimized_variants
    ELSE RightExplodeFrom(new_fds,
             RightExplodeStep(minimized_variants, fd_index,
                              new_fds[fd_index][1], new_fds[fd_index][2]),
             fd_index + 1)

\* Each variant without its None slots, through a set and back to a list.
UniqueVariants(minimized_variants) ==
    [k \in 1 .. Len(minimized_variants) |->
        SetOrder(ToSet(NotNone(minimized_variants[k])))]

\* sorted(minimized_variants, key=len): stable, shortest first.
RECURSIVE SortedByLenFrom(_, _, _)
SortedByLenFrom(lists, size, max) ==
    IF size > max THEN <<>>
    ELSE SelectSeq(lists, LAMBDA v : Len(v) = size) \o SortedByLenFrom(lists, size + 1, max)

RECURSIVE MaxLen(_)
MaxLen(lists) ==
    IF lists = <<>> THEN 0
    ELSE LET m == MaxLen(Tail(lists))
         IN  IF Len(Head(lists)) > m THEN Len(Head(lists)) ELSE m

SortedByLen(lists) == SortedByLenFrom(lists, 0, MaxLen(lists))

\* list.remove(x): the first element equal to x is taken out.
RECURSIVE ListRemove(_, _)
ListRemove(lists, x) ==
    IF lists = <<>> THEN <<>>
    ELSE IF Head(lists) = x THEN Tail(lists)
    ELSE <<Head(lists)>> \o ListRemove(Tail(lists), x)

\* Whether the for loop over index_y removes variant_x (at 0-based index_x).
RemovedBySome(minimized_variants, index_x) ==
    LET variant_x == minimized_variants[index_x + 1]
    IN  \E index_y \in 0 .. Len(minimized_variants) - 1 :
            LET variant_y == minimized_variants[index_y + 1]
            IN  /\ ~(Len(variant_x) < Len(variant_y) \/ index_x = index_y)
                /\ \/ /\ Len(variant_x) = Len(variant_y)
                      /\ \A k \in 1 .. Len(variant_x) : variant_x[k] \in ToSet(variant_y)
                   \/ \A k \in 1 .. Len(variant_y) : variant_y[k] \in ToSet(variant_x)

\* The while loop "Remove non-minimal subsets" of minimize_right_explode.
RECURSIVE RemoveNonMinimal(_, _)
RemoveNonMinimal(minimized_variants, index_x) ==
    IF index_x >= Len(minimized_variants) THEN minimized_variants
    ELSE IF RemovedBySome(minimized_variants, index_x)
         THEN RemoveNonMinimal(
                  ListRemove(minimized_variants, minimized_variants[index_x + 1]), index_x)
         ELSE RemoveNonMinimal(minimized_variants, index_x + 1)

\* minimize_right_explode
minimize_right_explode(fdl) ==
    LET new_fds == non_trivial(fdl)
        raw == RightExplodeFrom(new_fds, <<new_fds>>, 1)
    IN  RemoveNonMinimal(SortedByLen(UniqueVariants(raw)), 0)

\* A cover slot of min_covers_list set to None.
NoCover == <<None>>

\* min_covers_list.extend(minimize_right_explode(candidate_cover)) for each cover.
RECURSIVE ExtendAll(_)
ExtendAll(minimized_left) ==
    IF minimized_left = <<>> THEN <<>>
    ELSE minimize_right_explode(Head(minimized_left)) \o ExtendAll(Tail(minimized_left))

\* "Remove duplicates" of min_covers_binary: list equality, slot j set to None.
RECURSIVE RemoveDuplicates(_, _)
RemoveDuplicates(min_covers_list, i) ==
    IF i > Len(min_covers_list) THEN min_covers_list
    ELSE RemoveDuplicates(
             [j \in 1 .. Len(min_covers_list) |->
                 IF j > i /\ min_covers_list[i] = min_covers_list[j]
                 THEN NoCover ELSE min_covers_list[j]],
             i + 1)

\* min_covers_binary: an exception of drop_dependencies or of
\* minimize_left_explode leaves the function.
min_covers_binary(fdl) ==
    LET dropped == drop_dependencies(fdl)
    IN  IF dropped.raised # "no" THEN dropped
        ELSE LET minimized_left == minimize_left_explode(non_trivial(dropped.value))
             IN  IF minimized_left.raised # "no" THEN minimized_left
                 ELSE Return(SelectSeq(RemoveDuplicates(ExtendAll(minimized_left.value), 1),
                                       LAMBDA cover : cover # NoCover))

\* The loops of sigma_plus_limited: attr_closure.pop_count is the bound method,
\* never equal to the integer length, so candidates stays empty.
RECURSIVE SigmaPlusFrom(_, _, _, _, _)
SigmaPlusFrom(i, num_attrs, non_trivial_fds, candidates, sigma_plus) ==
    IF i >= num_attrs THEN sigma_plus
    ELSE LET attr_set_comb == attribute_combinations(num_attrs, i, candidates)
         IN  SigmaPlusFrom(i + 1, num_attrs, non_trivial_fds, candidates,
                 sigma_plus \cup
                 {<<attr_set, attribute_closure(attr_set, non_trivial_fds, {})>> :
                     attr_set \in attr_set_comb})

\* sigma_plus_limited up to "fd_values": the set sigma_plus, the word returned
\* when every FD is trivial, or the IndexError of fds[0] on an empty list.
sigma_plus_limited(fdl) ==
    LET non_trivial_fds == non_trivial(fdl)
    IN  IF Len(non_trivial_fds) = 0
        THEN IF Len(fdl) = 0 THEN Raise("IndexError")
             ELSE Return(ones(fdl[1][1]))
        ELSE Return(SigmaPlusFrom(0, fdl[1][1].length, non_trivial_fds, {}, {}))

-----------------------------------------------------------------------------
(* src/normalization/test_normal_form.py *)

\* is_bcnf; the parameter length is not read.
is_bcnf(length, fdl) ==
    Return(\A k \in 1 .. Len(fdl) :
               LET left_side == fdl[k][1]
                   right_side == fdl[k][2]
                   is_trivial == bw_eq(bw_and(left_side, right_side), right_side)
               IN  ~(~is_trivial /\ ~is_superkey(left_side, fdl)))

\* The prime attributes taken from one candidate key instead of all of them.
ReduceOr_one_key(words) == CHOOSE w \in words : TRUE

\* reduce(lambda acc, curr: acc | curr, cand_keys)
RECURSIVE ReduceOr(_)
ReduceOr(words) ==
    LET curr == CHOOSE w \in words : TRUE
    IN  IF Cardinality(words) = 1 THEN curr
        ELSE bw_or(ReduceOr(words \ {curr}), curr)

\* is_3nf without the test that the left side is a superkey.
Loop3nf_prime_only(fdl, cand_keys) ==
    LET prime_attributes == ReduceOr(cand_keys)
    IN  \A k \in 1 .. Len(fdl) :
            LET left_side == fdl[k][1]
                right_side == fdl[k][2]
                is_trivial == is_subset_of(right_side, left_side)
            IN  ~(/\ ~is_trivial
                  /\ ~is_subset_of(right_side, prime_attributes))

\* The for loop of is_3nf, with the candidate keys given.
Loop3nf(fdl, cand_keys) ==
    LET prime_attributes == ReduceOr(cand_keys)
    IN  \A k \in 1 .. Len(fdl) :
            LET left_side == fdl[k][1]
                right_side == fdl[k][2]
                is_trivial == is_subset_of(right_side, left_side)
            IN  ~(/\ ~is_trivial
                  /\ ~is_subset_of(right_side, prime_attributes)
                  /\ ~(\E curr \in cand_keys : is_subset_of(curr, left_side)))

\* is_2nf that tests the left side for being a subset, proper or not, of a key.
Loop2nf_subset(fdl, candidates) ==
    \A k \in 1 .. Len(fdl) :
        LET left_side == fdl[k][1]
            right_side == fdl[k][2]
            is_trivial == is_subset_of(right_side, left_side)
        IN  ~is_trivial =>
                ~(\E candidate \in candidates : is_subset_of(left_side, candidate))

\* The for loop of is_2nf, with the candidate keys given.
Loop2nf(fdl, candidates) ==
    \A k \in 1 .. Len(fdl) :
        LET left_side == fdl[k][1]
            right_side == fdl[k][2]
            is_trivial == is_subset_of(right_side, left_side)
        IN  ~is_trivial =>
                ~(\E candidate \in candidates : is_proper_subset_of(left_side, candidate))

\* is_3nf: an exception of candidate_keys passes through; reduce of an empty
\* set without an initial value raises TypeError.
is_3nf(fdl) ==
    LET cand_keys == candidate_keys(fdl)
    IN  IF cand_keys.raised # "no" THEN Raise(cand_keys.raised)
        ELSE IF cand_keys.value = {} THEN Raise("TypeError")
        ELSE Return(Loop3nf(fdl, cand_keys.value))

\* is_2nf
is_2nf(fdl) ==
    LET candidates == candidate_keys(fdl)
    IN  IF candidates.raised # "no" THEN Raise(candidates.raised)
        ELSE Return(Loop2nf(fdl, candidates.value))

\* NormalFormChecker.__init__: self.candidates = None.
NoCandidates == [assigned |-> FALSE, keys |-> {}]

\* The candidate keys kept in a local variable, as the function is_3nf keeps
\* them: self.candidates stays None.
StoreCandidates_local(keys) == NoCandidates

\* self.candidates = <the set returned by candidate_keys>
StoreCandidates(keys) == [assigned |-> TRUE, keys |-> keys]

\* NormalFormChecker.is_bcnf
checker_is_bcnf(num_attr, fdl) == is_bcnf(num_attr, fdl)

\* NormalFormChecker.is_3nf: [ret, candidates] after the call.
checker_is_3nf(fdl, stored_candidates) ==
    LET keys == candidate_keys(fdl)
    IN  IF keys.raised # "no"
        THEN [ret |-> Raise(keys.raised), candidates |-> stored_candidates]
        ELSE LET stored == [assigned |-> TRUE, keys |-> keys.value]
             IN  IF keys.value = {}
                 THEN [ret |-> Raise("TypeError"), candidates |-> stored]
                 ELSE [ret |-> Return(Loop3nf(fdl, keys.value)), candidates |-> stored]

\* NormalFormChecker.is_2nf: iterating self.candidates = None raises TypeError,
\* at the first non-trivial FD.
checker_is_2nf(fdl, stored_candidates) ==
    IF stored_candidates.assigned
    THEN Return(Loop2nf(fdl, stored_candidates.keys))
    ELSE IF \E k \in 1 .. Len(fdl) : ~is_subset_of(fdl[k][2], fdl[k][1])
         THEN Raise("TypeError")
         ELSE Return(TRUE)

-----------------------------------------------------------------------------
(* Inputs *)

Words(n) == {BinaryWord(n, v) : v \in 0 .. Pow2(n) - 1}

FDsOver(n) == Words(n) \X Words(n)

RECURSIVE SeqsUpTo(_, _)
SeqsUpTo(S, k) ==
    IF k = 0 THEN {<<>>}
    ELSE LET shorter == SeqsUpTo(S, k - 1)
         IN  shorter \cup {Append(s, x) : s \in {t \in shorter : Len(t) = k - 1}, x \in S}

FDLists(n) == SeqsUpTo(FDsOver(n), MaxFDs)

NoCall == [fn |-> "none"]

\* FDSampleRushResult.__init__ and NormalFormChecker.__init__ on a generated list.
Init ==
    /\ num_attributes \in 1 .. NumAttrs
    /\ fds \in FDLists(num_attributes)
    /\ self_candidates = NoCandidates
    /\ call = NoCall
    /\ ret = Return(None)

Called(fn) == call.fn = fn
Fresh == call = NoCall

\* fds with the slots of removed set to None.
WithNone(fdl, removed) == [k \in 1 .. Len(fdl) |-> IF k \in removed THEN None ELSE fdl[k]]

\* attribute_closure(attribute_set, fds, exclude), some slots of fds being None
CallAttributeClosure ==
    /\ Fresh
    /\ \E attribute_set \in Words(num_attributes),
          exclude \in SUBSET ToSet(fds),
          removed \in SUBSET (1 .. Len(fds)) :
          /\ call' = [fn |-> "attribute_closure", attribute_set |-> attribute_set,
                      fds |-> WithNone(fds, removed), exclude |-> exclude]
          /\ ret' = Return(attribute_closure(attribute_set, WithNone(fds, removed), exclude))
    /\ UNCHANGED <<num_attributes, fds, self_candidates>>

\* candidate_keys(fds)
CallCandidateKeys ==
    /\ Fresh
    /\ call' = [fn |-> "candidate_keys"]
    /\ ret' = candidate_keys(fds)
    /\ UNCHANGED <<num_attributes, fds, self_candidates>>

\* minimize_left(fds)
CallMinimizeLeft ==
    /\ Fresh
    /\ call' = [fn |-> "minimize_left"]
    /\ \E outcome \in minimize_left(fds) : ret' = outcome
    /\ UNCHANGED <<num_attributes, fds, self_candidates>>

\* minimize_right(fds)
CallMinimizeRight ==
    /\ Fresh
    /\ call' = [fn |-> "minimize_right"]
    /\ ret' = Return(minimize_right(fds))
    /\ UNCHANGED <<num_attributes, fds, self_candidates>>

\* min_cover of main.py between translate_to_binary and translate_from_binary
CallMinCover ==
    /\ Fresh
    /\ call' = [fn |-> "min_cover"]
    /\ LET dropped == drop_dependencies(fds)
       IN  IF dropped.raised # "no" THEN ret' = dropped
           ELSE \E minimized_left \in minimize_left(non_trivial(dropped.value)) :
                    IF minimized_left.raised # "no" THEN ret' = minimized_left
                    ELSE ret' = Return(minimize_right(minimized_left.value))
    /\ UNCHANGED <<num_attributes, fds, self_candidates>>

\* min_covers_binary(fds)
CallMinCoversBinary ==
    /\ Fresh
    /\ call' = [fn |-> "min_covers_binary"]
    /\ ret' = min_covers_binary(fds)
    /\ UNCHANGED <<num_attributes, fds, self_candidates>>

\* all_minimal_covers_binary(fds): sigma_plus is listed in the order its set iterates
CallAllMinimalCoversBinary ==
    /\ Fresh
    /\ num_attributes <= AllCoversAttrs
    /\ call' = [fn |-> "all_minimal_covers_binary"]
    /\ LET dropped == drop_dependencies(fds)
       IN  IF dropped.raised # "no" THEN ret' = dropped
           ELSE LET sigma_plus == sigma_plus_limited(non_trivial(dropped.value))
                IN  IF sigma_plus.raised # "no"
                    THEN ret' = Raise(sigma_plus.raised)
                    ELSE \E fd_values \in Perms(sigma_plus.value) :
                             ret' = min_covers_binary(fd_values)
    /\ UNCHANGED <<num_attributes, fds, self_candidates>>

\* sigma_plus_limited(fds): fd_values is listed in the order the set iterates;
\* when every FD is trivial the value returned is a word, not a list
CallSigmaPlusLimited ==
    /\ Fresh
    /\ num_attributes <= AllCoversAttrs
    /\ call' = [fn |-> "sigma_plus_limited"]
    /\ LET sigma_plus == sigma_plus_limited(fds)
       IN  IF sigma_plus.raised # "no" \/ non_trivial(fds) = <<>>
           THEN ret' = sigma_plus
           ELSE \E fd_values \in Perms(sigma_plus.value) : ret' = Return(fd_values)
    /\ UNCHANGED <<num_attributes, fds, self_candidates>>

\* The non-trivial FDs over n attributes with one attribute on the right side.
DecomposedFDs(n) ==
    {fd \in FDsOver(n) : pop_count(fd[2]) = 1 /\ ~is_subset_of(fd[2], fd[1])}

RECURSIVE Extensions(_, _, _)
Extensions(fdl, S, k) ==
    IF k = 0 THEN {fdl}
    ELSE {fdl} \cup UNION {Extensions(Append(fdl, fd), S, k - 1) : fd \in S}

\* The lists given to minimize_right_explode and to minimize_left_explode: fds
\* itself and fds with up to ExtraFDs further FDs of the kind min_covers_binary
\* is documented to pass, non-trivial with one attribute on the right side.
ExplodeInputs == Extensions(fds, DecomposedFDs(num_attributes), ExtraFDs)

\* minimize_right_explode(F)
CallMinimizeRightExplode ==
    /\ Fresh
    /\ \E F \in (IF num_attributes <= RightExplodeAttrs THEN ExplodeInputs ELSE {fds}) :
          /\ call' = [fn |-> "minimize_right_explode", fds |-> F]
          /\ ret' = Return(minimize_right_explode(F))
    /\ UNCHANGED <<num_attributes, fds, self_candidates>>

\* The list objects of a call are kept in a heap, a sequence indexed by the
\* object's identity; a variable of the code that names a list holds an identity.

\* list.copy(): a new list object with the same items.
ListCopy(heap, id) == [heap |-> Append(heap, heap[id]), id |-> Len(heap) + 1]

\* a_list[i] = item, written into the object a_list names.
ListSetItem(heap, id, i, item) == [heap EXCEPT ![id][i] = item]

\* The lists that minimized_variants names, in order.
Variants(st) == [v \in 1 .. Len(st.variants) |-> st.heap[st.variants[v]]]

\* The loop "for new_left in possible_minimal_fd_replacement" for one variant,
\* on the list objects: the first replacement is written into fd_list_variant,
\* every later one that is not in the progress set into a copy of it.
\* st.heap holds the list objects, st.variants the identities in
\* minimized_variants, st.sets the list of hashable sets.
RECURSIVE HeapApplyReplacements(_, _, _, _, _, _)
HeapApplyReplacements(st, variant_index, i, right, possible, is_first) ==
    IF possible = <<>> THEN st
    ELSE LET new_fd == <<Head(possible), right>>
             fd_list_variant == st.variants[variant_index]
         IN  IF is_first
             THEN HeapApplyReplacements(
                      [st EXCEPT !.heap = ListSetItem(@, fd_list_variant, i, new_fd),
                                 !.sets[variant_index] = @ \cup {new_fd}],
                      variant_index, i, right, Tail(possible), FALSE)
             ELSE IF new_fd \in st.sets[variant_index]
                  THEN HeapApplyReplacements(st, variant_index, i, right,
                                             Tail(possible), FALSE)
                  ELSE LET latest_copy == ListCopy(st.heap, fd_list_variant)
                       IN  HeapApplyReplacements(
                               [heap |-> ListSetItem(latest_copy.heap, latest_copy.id,
                                                     i, new_fd),
                                variants |-> Append(st.variants, latest_copy.id),
                                sets |-> Append(st.sets,
                                                st.sets[variant_index] \cup {new_fd})],
                               variant_index, i, right, Tail(possible), FALSE)

\* minimize_left_explode(F) up to the for loop over the positions: pc is the
\* loop the call is in, i and variant_index are the 1-based loop indices, last
\* is the possible_minimal_fd_replacement list computed by the latest pass of
\* the loop over the variants, forks the passes that found several replacements.
\* The caller's list is object 1; new_fds = fds.copy() names a copy, and
\* non_trivial(new_fds) builds the list that new_fds and minimized_variants[0]
\* name from then on.
BeginMinimizeLeftExplode ==
    /\ Fresh
    /\ \E F \in ExplodeInputs :
          LET new_fds == ListCopy(<<F>>, 1)
              filtered == Append(new_fds.heap, non_trivial(new_fds.heap[new_fds.id]))
          IN  call' = [fn |-> "minimize_left_explode", fds |-> F, pc |-> "position",
                       i |-> 1, variant_index |-> 1, num_to_process |-> 0,
                       left |-> None, right |-> None,
                       st |-> [heap |-> filtered, variants |-> <<Len(filtered)>>,
                               sets |-> <<{}>>],
                       last |-> None, forks |-> <<>>]
    /\ UNCHANGED <<num_attributes, fds, self_candidates, ret>>

InLeftExplode(pc) == Called("minimize_left_explode") /\ call.pc = pc

\* One pass of "for i in range(len(new_fds))" up to the loop over the variants:
\* new_fds[i] is read from the list that is minimized_variants[0]; a
\* single-attribute left side is recorded and skipped.
LeftExplodePosition ==
    /\ InLeftExplode("position")
    /\ call.i <= Len(Variants(call.st)[1])
    /\ LET left == Variants(call.st)[1][call.i][1]
           right == Variants(call.st)[1][call.i][2]
       IN  IF pop_count(left) = 1
           THEN call' = [call EXCEPT !.st.sets[1] = @ \cup {<<left, right>>},
                                     !.i = @ + 1, !.last = None]
           ELSE call' = [call EXCEPT !.left = left, !.right = right,
                                     !.num_to_process = Len(call.st.variants),
                                     !.variant_index = 1, !.pc = "variant",
                                     !.last = None]
    /\ UNCHANGED <<num_attributes, fds, self_candidates, ret>>

\* One pass of "for variant_index in range(num_to_process)": the replacements
\* of the FD at position i in this variant are computed and applied; the
\* exception that computing them raises ends the call.
LeftExplodeVariant ==
    /\ InLeftExplode("variant")
    /\ LET fd_list_variant == Variants(call.st)[call.variant_index]
           possible == possible_minimal_fd_replacement(call.left, call.right,
                                                       fd_list_variant)
           is_last == call.variant_index = call.num_to_process
       IN  IF possible.raised # "no"
           THEN /\ call' = [call EXCEPT !.pc = "raised", !.last = None]
                /\ ret' = possible
           ELSE LET st == HeapApplyReplacements(call.st, call.variant_index, call.i,
                                                call.right, possible.value, TRUE)
                    pass == [i |-> call.i, variant |-> fd_list_variant,
                             left |-> call.left, right |-> call.right,
                             possible |-> possible.value]
                IN  /\ call' = [call EXCEPT
                                   !.st = st,
                                   !.last = pass,
                                   !.forks = IF Len(possible.value) >= 2
                                             THEN Append(@, pass) ELSE @,
                                   !.variant_index = IF is_last THEN 1 ELSE @ + 1,
                                   !.i = IF is_last THEN @ + 1 ELSE @,
                                   !.pc = IF is_last THEN "position" ELSE "variant"]
                    /\ UNCHANGED ret
    /\ UNCHANGED <<num_attributes, fds, self_candidates>>

\* return minimized_variants
LeftExplodeReturn ==
    /\ InLeftExplode("position")
    /\ call.i > Len(Variants(call.st)[1])
    /\ call' = [call EXCEPT !.pc = "done", !.last = None]
    /\ ret' = Return(Variants(call.st))
    /\ UNCHANGED <<num_attributes, fds, self_candidates>>

\* Largest number of scans the while loop of attribute_closure is followed for.
MaxScans == NumAttrs + 2

InClosureScans(pc) == Called("attribute_closure, scan by scan") /\ call.pc = pc

\* attribute_closure(attribute_set, fds, exclude) up to the while loop:
\* attr_closure = attribute_set, has_changed = True
BeginAttributeClosure ==
    /\ Fresh
    /\ \E attribute_set \in Words(num_attributes), exclude \in SUBSET ToSet(fds) :
          call' = [fn |-> "attribute_closure, scan by scan", pc |-> "while",
                   attribute_set |-> attribute_set, fds |-> fds, exclude |-> exclude,
                   attr_closure |-> attribute_set, has_changed |-> TRUE, scans |-> 0]
    /\ UNCHANGED <<num_attributes, fds, self_candidates, ret>>

\* One pass of "while has_changed": has_changed is cleared, the FD list is
\* scanned, and has_changed is set when an FD enlarged the closure.
AttributeClosureScan ==
    /\ InClosureScans("while")
    /\ call.has_changed
    /\ call.scans < MaxScans
    /\ LET scanned == ClosureScan(call.attr_closure, call.fds, call.exclude, 1)
       IN  call' = [call EXCEPT !.attr_closure = scanned,
                                !.has_changed = ~bw_eq(scanned, call.attr_closure),
                                !.scans = @ + 1]
    /\ UNCHANGED <<num_attributes, fds, self_candidates, ret>>

\* return attr_closure
AttributeClosureReturn ==
    /\ InClosureScans("while")
    /\ ~call.has_changed
    /\ call' = [call EXCEPT !.pc = "done"]
    /\ ret' = Return(call.attr_closure)
    /\ UNCHANGED <<num_attributes, fds, self_candidates>>

\* is_bcnf(num_attributes, fds)
CallIsBcnf ==
    /\ Fresh
    /\ call' = [fn |-> "is_bcnf"]
    /\ ret' = is_bcnf(num_attributes, fds)
    /\ UNCHANGED <<num_attributes, fds, self_candidates>>

\* is_3nf(fds)
CallIs3nf ==
    /\ Fresh
    /\ call' = [fn |-> "is_3nf"]
    /\ ret' = is_3nf(fds)
    /\ UNCHANGED <<num_attributes, fds, self_candidates>>

\* is_2nf(fds)
CallIs2nf ==
    /\ Fresh
    /\ call' = [fn |-> "is_2nf"]
    /\ ret' = is_2nf(fds)
    /\ UNCHANGED <<num_attributes, fds, self_candidates>>

\* A call followed statement by statement has not yet returned or raised.
CallInProgress == "pc" \in DOMAIN call /\ call.pc \notin {"done", "raised"}

\* NormalFormChecker.is_bcnf(), at any point of the checker's life; calls are
\* synchronous, so none starts while another is in progress.
CheckerIsBcnf ==
    /\ ~CallInProgress
    /\ call' = [fn |-> "NormalFormChecker.is_bcnf"]
    /\ ret' = checker_is_bcnf(num_attributes, fds)
    /\ UNCHANGED <<num_attributes, fds, self_candidates>>

\* NormalFormChecker.is_3nf(), at any point of the checker's life
CheckerIs3nf ==
    /\ ~CallInProgress
    /\ call' = [fn |-> "NormalFormChecker.is_3nf"]
    /\ ret' = checker_is_3nf(fds, self_candidates).ret
    /\ self_candidates' = checker_is_3nf(fds, self_candidates).candidates
    /\ UNCHANGED <<num_attributes, fds>>

\* NormalFormChecker.is_2nf(), at any point of the checker's life
CheckerIs2nf ==
    /\ ~CallInProgress
    /\ call' = [fn |-> "NormalFormChecker.is_2nf"]
    /\ ret' = checker_is_2nf(fds, self_candidates)
    /\ UNCHANGED <<num_attributes, fds, self_candidates>>

InRun(pc) == Called("FDSampleRushResult.run") /\ call.pc = pc

\* is_superkey(attribute_set, fd_list) is entered: attribute_closure starts
\* with attr_closure = attribute_set and has_changed = True.
EnterIsSuperkey(record, caller, attribute_set) ==
    [record EXCEPT !.pc = "is_superkey", !.caller = caller, !.attr_set = attribute_set,
                   !.attr_closure = attribute_set, !.has_changed = TRUE]

\* The FD list is_superkey was given: self.fds by is_bcnf, non_trivial_fds by
\* candidate_keys.
RunClosureFDs == IF call.caller = "is_bcnf" THEN fds ELSE non_trivial(fds)

\* FDSampleRushResult.run: normal_form_tester = NormalFormChecker(num_attributes, fds);
\* the results are False since __init__.
RunBegin ==
    /\ Fresh
    /\ call' = [fn |-> "FDSampleRushResult.run", pc |-> "is_bcnf", calls |-> <<>>,
                candidate_keys_of |-> {},
                result_bcnf |-> FALSE, result_3nf |-> FALSE, result_2nf |-> FALSE,
                k |-> 1, i |-> 0, candidates |-> {}, todo |-> {}, caller |-> "none",
                attr_set |-> None, attr_closure |-> None, has_changed |-> FALSE]
    /\ self_candidates' = NoCandidates
    /\ UNCHANGED <<num_attributes, fds, ret>>

\* self.result_bcnf = normal_form_tester.is_bcnf(): the for loop of is_bcnf at
\* the k-th FD. A non-trivial FD has its left side tested by is_superkey;
\* past the last FD is_bcnf returns True.
RunIsBcnf ==
    /\ InRun("is_bcnf")
    /\ IF call.k > Len(fds)
       THEN call' = [call EXCEPT !.pc = "is_3nf", !.calls = Append(@, "is_bcnf"),
                                 !.result_bcnf = TRUE]
       ELSE LET left_side == fds[call.k][1]
                right_side == fds[call.k][2]
                is_trivial == bw_eq(bw_and(left_side, right_side), right_side)
            IN  IF is_trivial
                THEN call' = [call EXCEPT !.k = @ + 1]
                ELSE call' = EnterIsSuperkey(call, "is_bcnf", left_side)
    /\ UNCHANGED <<num_attributes, fds, self_candidates, ret>>

\* One pass of "while has_changed" of attribute_closure, called by is_superkey.
RunClosureScan ==
    /\ InRun("is_superkey")
    /\ call.has_changed
    /\ LET scanned == ClosureScan(call.attr_closure, RunClosureFDs, {}, 1)
       IN  call' = [call EXCEPT !.attr_closure = scanned,
                                !.has_changed = ~bw_eq(scanned, call.attr_closure)]
    /\ UNCHANGED <<num_attributes, fds, self_candidates, ret>>

\* is_superkey returns whether the closure is the word of all ones. In is_bcnf
\* a left side that is no superkey makes is_bcnf return False; in
\* candidate_keys a superkey is added to candidates.
RunIsSuperkeyReturn ==
    /\ InRun("is_superkey")
    /\ ~call.has_changed
    /\ LET superkey == bw_eq(call.attr_closure,
                             BinaryWord(call.attr_set.length,
                                        Pow2(call.attr_set.length) - 1))
       IN  IF call.caller = "is_bcnf"
           THEN IF superkey
                THEN call' = [call EXCEPT !.pc = "is_bcnf", !.k = @ + 1]
                ELSE call' = [call EXCEPT !.pc = "is_3nf",
                                          !.calls = Append(@, "is_bcnf"),
                                          !.result_bcnf = FALSE]
           ELSE call' = [call EXCEPT !.pc = "candidate_keys",
                                     !.candidates = IF superkey
                                                    THEN @ \cup {call.attr_set} ELSE @]
    /\ UNCHANGED <<num_attributes, fds, self_candidates, ret>>

\* self.result_3nf = True if self.result_bcnf else normal_form_tester.is_3nf(),
\* up to the loop of candidate_keys(self.fds): without a non-trivial FD
\* candidate_keys returns {fds[0][0].ones()}, and fds[0] of an empty list
\* raises IndexError.
RunIs3nf ==
    /\ InRun("is_3nf")
    /\ IF call.result_bcnf
       THEN /\ call' = [call EXCEPT !.pc = "is_2nf", !.result_3nf = TRUE]
            /\ UNCHANGED <<ret, self_candidates>>
       ELSE LET called == [call EXCEPT !.calls = Append(@, "is_3nf"),
                                       !.candidate_keys_of = @ \cup {fds}]
            IN  IF Len(non_trivial(fds)) > 0
                THEN /\ call' = [called EXCEPT
                                    !.pc = "candidate_keys", !.i = 0, !.candidates = {},
                                    !.todo = attribute_combinations(fds[1][1].length, 0, {})]
                     /\ UNCHANGED <<ret, self_candidates>>
                ELSE IF Len(fds) = 0
                THEN /\ call' = [called EXCEPT !.pc = "raised"]
                     /\ ret' = Raise("IndexError")
                     /\ UNCHANGED self_candidates
                ELSE /\ call' = [called EXCEPT !.pc = "is_3nf, reduce"]
                     /\ self_candidates' = StoreCandidates({ones(fds[1][1])})
                     /\ UNCHANGED ret
    /\ UNCHANGED <<num_attributes, fds>>

\* The loops of candidate_keys: the next attr_set of attr_set_comb, a set
\* iterated in any order, is tested by is_superkey; when the set is used up
\* the next size i starts, and after the last size the returned set is
\* assigned to self.candidates.
RunCandidateKeys ==
    /\ InRun("candidate_keys")
    /\ LET num_attrs == fds[1][1].length
       IN  IF call.todo # {}
           THEN /\ \E attr_set \in call.todo :
                      call' = EnterIsSuperkey([call EXCEPT !.todo = @ \ {attr_set}],
                                              "candidate_keys", attr_set)
                /\ UNCHANGED self_candidates
           ELSE IF call.i + 1 < num_attrs
           THEN /\ call' = [call EXCEPT
                               !.i = @ + 1,
                               !.todo = attribute_combinations(num_attrs, call.i + 1,
                                                               call.candidates)]
                /\ UNCHANGED self_candidates
           ELSE /\ call' = [call EXCEPT !.pc = "is_3nf, reduce"]
                /\ self_candidates' = StoreCandidates(call.candidates)
    /\ UNCHANGED <<num_attributes, fds, ret>>

\* The rest of NormalFormChecker.is_3nf: the reduce over self.candidates, which
\* raises TypeError on an empty set, and the loop over the FDs.
RunIs3nfLoop ==
    /\ InRun("is_3nf, reduce")
    /\ IF self_candidates.keys = {}
       THEN /\ call' = [call EXCEPT !.pc = "raised"]
            /\ ret' = Raise("TypeError")
       ELSE /\ call' = [call EXCEPT !.pc = "is_2nf",
                                    !.result_3nf = Loop3nf(fds, self_candidates.keys)]
            /\ UNCHANGED ret
    /\ UNCHANGED <<num_attributes, fds, self_candidates>>

\* self.result_2nf = True if self.result_3nf else normal_form_tester.is_2nf()
RunIs2nf ==
    /\ InRun("is_2nf")
    /\ IF call.result_3nf
       THEN /\ call' = [call EXCEPT !.pc = "return", !.result_2nf = TRUE]
            /\ UNCHANGED ret
       ELSE LET result == checker_is_2nf(fds, self_candidates)
            IN  IF result.raised # "no"
                THEN /\ call' = [call EXCEPT !.pc = "raised",
                                             !.calls = Append(@, "is_2nf")]
                     /\ ret' = result
                ELSE /\ call' = [call EXCEPT !.pc = "return",
                                             !.calls = Append(@, "is_2nf"),
                                             !.result_2nf = result.value]
                     /\ UNCHANGED ret
    /\ UNCHANGED <<num_attributes, fds, self_candidates>>

\* run returns None after result_time is set. normal_form_tester is a local
\* variable of run: the checker and the candidate keys it stored are gone with
\* run's frame, and a checker built afterwards has candidates None.
RunReturn ==
    /\ InRun("return")
    /\ call' = [call EXCEPT !.pc = "done"]
    /\ ret' = Return(None)
    /\ self_candidates' = NoCandidates
    /\ UNCHANGED <<num_attributes, fds>>

\* The words of every length up to NumAttrs.
AnyLengthWords == UNION {Words(n) : n \in 1 .. NumAttrs}

\* self & other, self being a side of an FD of fds and other a word of any length
BinaryWordAnd ==
    /\ Fresh
    /\ \E k \in 1 .. Len(fds), side \in 1 .. 2, other \in AnyLengthWords :
          /\ call' = [fn |-> "BinaryWord.__and__", self |-> fds[k][side], other |-> other]
          /\ ret' = Return(bw_and(fds[k][side], other))
    /\ UNCHANGED <<num_attributes, fds, self_candidates>>

\* self | other
BinaryWordOr ==
    /\ Fresh
    /\ \E k \in 1 .. Len(fds), side \in 1 .. 2, other \in AnyLengthWords :
          /\ call' = [fn |-> "BinaryWord.__or__", self |-> fds[k][side], other |-> other]
          /\ ret' = Return(bw_or(fds[k][side], other))
    /\ UNCHANGED <<num_attributes, fds, self_candidates>>

\* self ^ other
BinaryWordXor ==
    /\ Fresh
    /\ \E k \in 1 .. Len(fds), side \in 1 .. 2, other \in AnyLengthWords :
          /\ call' = [fn |-> "BinaryWord.__xor__", self |-> fds[k][side], other |-> other]
          /\ ret' = Return(bw_xor(fds[k][side], other))
    /\ UNCHANGED <<num_attributes, fds, self_candidates>>

\* self == other
BinaryWordEq ==
    /\ Fresh
    /\ \E k \in 1 .. Len(fds), side \in 1 .. 2, other \in AnyLengthWords :
          /\ call' = [fn |-> "BinaryWord.__eq__", self |-> fds[k][side], other |-> other]
          /\ ret' = Return(bw_eq(fds[k][side], other))
    /\ UNCHANGED <<num_attributes, fds, self_candidates>>

\* self < other
BinaryWordLt ==
    /\ Fresh
    /\ \E k \in 1 .. Len(fds), side \in 1 .. 2, other \in AnyLengthWords :
          /\ call' = [fn |-> "BinaryWord.__lt__", self |-> fds[k][side], other |-> other]
          /\ ret' = Return(bw_lt(fds[k][side], other))
    /\ UNCHANGED <<num_attributes, fds, self_candidates>>

\* attribute_closure(attribute_set, fds) for an attribute set of any length
CallAttributeClosureAnyLength ==
    /\ Fresh
    /\ \E attribute_set \in AnyLengthWords :
          /\ call' = [fn |-> "attribute_closure of any length",
                      attribute_set |-> attribute_set]
          /\ ret' = Return(attribute_closure(attribute_set, fds, {}))
    /\ UNCHANGED <<num_attributes, fds, self_candidates>>

NextClosure == CallAttributeClosure
SpecClosure == Init /\ [][NextClosure]_vars

NextKeys == CallCandidateKeys
SpecKeys == Init /\ [][NextKeys]_vars

NextCover ==
    \/ CallMinimizeLeft
    \/ CallMinimizeRight
    \/ CallMinCover
    \/ CallMinCoversBinary
    \/ CallAllMinimalCoversBinary
SpecCover == Init /\ [][NextCover]_vars

NextNF == CallIsBcnf \/ CallIs3nf \/ CallIs2nf
SpecNF == Init /\ [][NextNF]_vars

NextChecker == CheckerIsBcnf \/ CheckerIs3nf \/ CheckerIs2nf
SpecChecker == Init /\ [][NextChecker]_vars

NextSigma ==
    \/ CallCandidateKeys
    \/ CallSigmaPlusLimited
    \/ CallAllMinimalCoversBinary
SpecSigma == Init /\ [][NextSigma]_vars

NextRightExplode == CallMinimizeRightExplode
SpecRightExplode == Init /\ [][NextRightExplode]_vars

NextLeftExplode ==
    \/ BeginMinimizeLeftExplode
    \/ LeftExplodePosition
    \/ LeftExplodeVariant
    \/ LeftExplodeReturn
SpecLeftExplode == Init /\ [][NextLeftExplode]_vars

NextClosureScans ==
    \/ BeginAttributeClosure
    \/ AttributeClosureScan
    \/ AttributeClosureReturn
\* The call is single-threaded and synchronous: a step that can be taken is taken.
SpecClosureScans == Init /\ [][NextClosureScans]_vars /\ WF_vars(NextClosureScans)

NextRun ==
    \/ RunBegin \/ RunIsBcnf \/ RunClosureScan \/ RunIsSuperkeyReturn \/ RunIs3nf
    \/ RunCandidateKeys \/ RunIs3nfLoop \/ RunIs2nf \/ RunReturn
\* run is one synchronous call: each statement follows the one before it.
SpecRun == Init /\ [][NextRun]_vars /\ WF_vars(NextRun)

NextWord ==
    \/ BinaryWordAnd
    \/ BinaryWordOr
    \/ BinaryWordXor
    \/ BinaryWordEq
    \/ BinaryWordLt
    \/ CallAttributeClosureAnyLength
SpecWord == Init /\ [][NextWord]_vars

Next ==
    NextClosure \/ NextKeys \/ NextCover \/ NextNF \/ NextChecker \/ NextSigma \/ NextWord
    \/ NextRightExplode \/ NextLeftExplode \/ NextClosureScans \/ NextRun
Spec == Init /\ [][Next]_vars

-----------------------------------------------------------------------------
(* The relational theory the claims are stated in: attribute sets are sets  *)
(* of bit positions, FD sets are sets of pairs of words.                    *)

Attrs == 0 .. num_attributes - 1

Bits(w) == {i \in 0 .. w.length - 1 : get_bit(w, i) = 1}

\* C respects every FD of F.
Closed(C, F) == \A fd \in F : Bits(fd[1]) \subseteq C => Bits(fd[2]) \subseteq C

\* The least attribute set that contains X and respects every FD of F.
LeastClosure(X, F) ==
    LET closed == {C \in SUBSET Attrs : X \subseteq C /\ Closed(C, F)}
    IN  {i \in Attrs : \A C \in closed : i \in C}

\* F and G give every attribute set the same closure.
Equivalent(F, G) == \A S \in SUBSET Attrs : LeastClosure(S, F) = LeastClosure(S, G)

\* The minimal superkeys of F.
MinimalSuperkeys(F) ==
    {K \in SUBSET Attrs :
        /\ LeastClosure(K, F) = Attrs
        /\ \A J \in (SUBSET K) \ {K} : LeastClosure(J, F) # Attrs}

\* Some bit of some left side of C can be cleared without changing a closure.
LhsBitClearable(C) ==
    \E fd \in C : \E i \in Bits(fd[1]) :
        Bits(fd[2]) \subseteq LeastClosure(Bits(fd[1]) \ {i}, C)

\* Some FD of C follows from the others.
HasRedundantFD(C) ==
    \E fd \in C : Bits(fd[2]) \subseteq LeastClosure(Bits(fd[1]), C \ {fd})

\* The minimal covers of F: singleton right sides, equivalent to F, no
\* redundant left-side attribute, no redundant FD.
SingletonFDs ==
    {fd \in FDsOver(num_attributes) : pop_count(fd[2]) = 1}

MinimalCovers(F) ==
    {C \in SUBSET SingletonFDs :
        Equivalent(F, C) /\ ~LhsBitClearable(C) /\ ~HasRedundantFD(C)}

\* The covers the last call produced.
CoverFns == {"minimize_left", "minimize_right", "min_cover", "min_covers_binary",
             "all_minimal_covers_binary"}
MinimalCoverFns == {"min_cover", "min_covers_binary", "all_minimal_covers_binary"}

ProducedCovers ==
    IF call.fn \notin CoverFns \/ ret.raised # "no" THEN {}
    ELSE IF call.fn \in {"minimize_left", "minimize_right", "min_cover"}
         THEN {ToSet(ret.value)}
         ELSE {ToSet(ret.value[k]) : k \in 1 .. Len(ret.value)}

\* The FDs of a list that attribute_closure may apply.
Active(fdl, exclude) ==
    {fdl[k] : k \in {j \in 1 .. Len(fdl) : fdl[j] # None /\ fdl[j] \notin exclude}}

-----------------------------------------------------------------------------
(* Claims *)

\* C1: for a non-empty FD list, candidate_keys returns exactly the minimal
\* superkeys: K is returned iff its closure is all attributes and no proper
\* subset of K has that closure.
C1_CandidateKeysAreMinimalSuperkeys ==
    (Called("candidate_keys") /\ fds # <<>>) =>
        /\ ret.raised = "no"
        /\ {Bits(k) : k \in ret.value} = MinimalSuperkeys(ToSet(fds))
        /\ \A k \in ret.value : k.length = num_attributes

\* Two keys are returned, one of them a single attribute of a three-attribute
\* relation, so that two-attribute superkeys had to be pruned.
C1_Witness ==
    /\ Called("candidate_keys")
    /\ ret.raised = "no"
    /\ num_attributes = 3
    /\ Cardinality(ret.value) = 2
    /\ \E k \in ret.value : pop_count(k) = 1
    /\ \E k \in ret.value : pop_count(k) = 2

\* C2: attribute_closure(X, F, exclude) is the least attribute set that
\* contains X and respects every FD of F that is neither None nor equal to a
\* member of exclude.
C2_ClosureIsLeastClosedSet ==
    Called("attribute_closure") =>
        /\ ret.raised = "no"
        /\ ret.value.length = num_attributes
        /\ Bits(ret.value) =
               LeastClosure(Bits(call.attribute_set), Active(call.fds, call.exclude))

\* A closure that needed two productive scans: the FD that fires first comes
\* later in the list.
C2_Witness ==
    /\ Called("attribute_closure")
    /\ Len(call.fds) = 2
    /\ ClosureLoop(call.attribute_set, call.fds, call.exclude, 0).scans = 3

\* Every cover that a call did produce gives every attribute set the closure
\* the input FD list gives it.
ProducedCoversAreEquivalent ==
    call.fn \in CoverFns =>
        \A C \in ProducedCovers : Equivalent(ToSet(fds), C)

\* C3: minimize_left, minimize_right, the min_cover pipeline,
\* min_covers_binary and all_minimal_covers_binary each produce covers of the
\* input FD list, and every cover gives every attribute set the closure the
\* input gives it.
C3_CoversAreEquivalent ==
    call.fn \in CoverFns =>
        /\ ret.raised = "no"
        /\ \A C \in ProducedCovers : Equivalent(ToSet(fds), C)

\* C4: the min_cover pipeline, min_covers_binary and all_minimal_covers_binary
\* produce covers in which no left-side bit can be cleared without changing a
\* closure, whatever the population count of the input's left sides.
C4_NoLhsBitClearable ==
    call.fn \in MinimalCoverFns =>
        /\ ret.raised = "no"
        /\ \A C \in ProducedCovers : ~LhsBitClearable(C)

\* C5: the min_cover pipeline, min_covers_binary and all_minimal_covers_binary
\* produce covers in which no FD follows from the other FDs of the cover.
C5_NoRedundantFD ==
    call.fn \in MinimalCoverFns =>
        /\ ret.raised = "no"
        /\ \A C \in ProducedCovers : ~HasRedundantFD(C)

\* C6: all_minimal_covers_binary returns every minimal cover of its input.
C6_ReturnsEveryMinimalCover ==
    Called("all_minimal_covers_binary") =>
        /\ ret.raised = "no"
        /\ \A C \in MinimalCovers(ToSet(fds)) : C \in ProducedCovers

\* C7: when is_3nf of an FD list is true, is_2nf of the same list is true.
C7_3nfImplies2nf ==
    (Called("is_3nf") /\ ret.raised = "no" /\ ret.value = TRUE) =>
        (is_2nf(fds).raised = "no" /\ is_2nf(fds).value = TRUE)

\* C8: when is_bcnf of a non-empty FD list is true, is_3nf of the same list
\* is true.
C8_BcnfImplies3nf ==
    (Called("is_bcnf") /\ fds # <<>> /\ ret.raised = "no" /\ ret.value = TRUE) =>
        (is_3nf(fds).raised = "no" /\ is_3nf(fds).value = TRUE)

\* is_bcnf is true of a three-attribute list with two non-trivial FDs.
C8_Witness ==
    /\ Called("is_bcnf")
    /\ ret.value = TRUE
    /\ num_attributes = 3
    /\ Len(non_trivial(fds)) = 2

\* C9: whatever calls were made before on the same checker, each
\* NormalFormChecker predicate returns the boolean that the free function of
\* the same name returns on the checker's FD list.
C9_CheckerAgreesWithFunctions ==
    /\ (Called("NormalFormChecker.is_bcnf") /\ is_bcnf(num_attributes, fds).raised = "no")
           => ret = is_bcnf(num_attributes, fds)
    /\ (Called("NormalFormChecker.is_3nf") /\ is_3nf(fds).raised = "no")
           => ret = is_3nf(fds)
    /\ (Called("NormalFormChecker.is_2nf") /\ is_2nf(fds).raised = "no")
           => ret = is_2nf(fds)

\* C10: is_3nf returns false exactly when some non-trivial FD has a right side
\* outside the union of the candidate keys and a left side that contains no
\* candidate key.
C10_3nfFalseIffTransitive ==
    Called("is_3nf") =>
        ((ret.raised = "no" /\ ret.value = FALSE) <=>
            \E k \in 1 .. Len(fds) :
                /\ ~(Bits(fds[k][2]) \subseteq Bits(fds[k][1]))
                /\ ~(Bits(fds[k][2]) \subseteq UNION MinimalSuperkeys(ToSet(fds)))
                /\ ~(\E K \in MinimalSuperkeys(ToSet(fds)) : K \subseteq Bits(fds[k][1])))

\* is_3nf is false of a three-attribute list of two non-trivial FDs.
C10_Witness ==
    /\ Called("is_3nf")
    /\ ret.raised = "no"
    /\ ret.value = FALSE
    /\ num_attributes = 3
    /\ Len(non_trivial(fds)) = 2


\* C11: is_2nf returns false exactly when some non-trivial FD has a left side
\* that is a proper subset of a candidate key.
C11_2nfFalseIffPartial ==
    Called("is_2nf") =>
        ((ret.raised = "no" /\ ret.value = FALSE) <=>
            \E k \in 1 .. Len(fds) :
                /\ ~(Bits(fds[k][2]) \subseteq Bits(fds[k][1]))
                /\ \E K \in MinimalSuperkeys(ToSet(fds)) :
                       Bits(fds[k][1]) \subseteq K /\ Bits(fds[k][1]) # K)

\* is_2nf is false of a list that has one FD whose left side is a whole
\* candidate key and one whose left side is a proper part of it.
C11_Witness ==
    /\ Called("is_2nf")
    /\ ret.raised = "no"
    /\ ret.value = FALSE
    /\ \E k \in 1 .. Len(fds) :
           /\ ~is_subset_of(fds[k][2], fds[k][1])
           /\ Bits(fds[k][1]) \in MinimalSuperkeys(ToSet(fds))
    /\ \E k \in 1 .. Len(fds) :
           /\ ~is_subset_of(fds[k][2], fds[k][1])
           /\ pop_count(fds[k][1]) >= 1
           /\ Bits(fds[k][1]) \notin MinimalSuperkeys(ToSet(fds))

\* C12: is_bcnf returns true exactly when every FD whose right side is not
\* inside its left side has a left side whose closure is all attributes; so it
\* is true of the empty list and of a list of trivial FDs.
C12_BcnfIffLhsSuperkeys ==
    Called("is_bcnf") =>
        /\ ret.raised = "no"
        /\ ret.value =
               (\A k \in 1 .. Len(fds) :
                    ~(Bits(fds[k][2]) \subseteq Bits(fds[k][1])) =>
                        LeastClosure(Bits(fds[k][1]), ToSet(fds)) = Attrs)
        /\ (\A k \in 1 .. Len(fds) : Bits(fds[k][2]) \subseteq Bits(fds[k][1]))
               => ret.value = TRUE

\* is_bcnf is true although a non-trivial FD has a left side that is not all
\* attributes: its closure had to be computed through the other FD.
C12_Witness ==
    /\ Called("is_bcnf")
    /\ ret.value = TRUE
    /\ Len(fds) = 2
    /\ ~is_subset_of(fds[1][2], fds[1][1])
    /\ ~is_superkey(fds[1][1], <<fds[1]>>)

\* C13: attribute_closure is monotonic in the attribute set and idempotent.
C13_ClosureMonotonicIdempotent ==
    Called("attribute_closure") =>
        /\ \A Y \in Words(num_attributes) :
               is_subset_of(call.attribute_set, Y) =>
                   is_subset_of(ret.value, attribute_closure(Y, call.fds, call.exclude))
        /\ attribute_closure(ret.value, call.fds, call.exclude) = ret.value

\* The closure of X adds an attribute to X, and a proper superset Y of X has a
\* closure that is a proper superset of the closure of X.
C13_Witness ==
    /\ Called("attribute_closure")
    /\ call.exclude = {}
    /\ ret.value # call.attribute_set
    /\ \E Y \in Words(num_attributes) :
           /\ is_proper_subset_of(call.attribute_set, Y)
           /\ is_proper_subset_of(ret.value, attribute_closure(Y, call.fds, {}))
           /\ attribute_closure(Y, call.fds, {}) # Y

\* C14: min_covers_binary and all_minimal_covers_binary return a list of
\* covers no two of which are equal as sets of FDs.
C14_NoTwoCoversEqualAsSets ==
    call.fn \in {"min_covers_binary", "all_minimal_covers_binary"} =>
        /\ ret.raised = "no"
        /\ \A j, k \in 1 .. Len(ret.value) :
               j # k => ToSet(ret.value[j]) # ToSet(ret.value[k])

\* C15: AND, OR, XOR, equality and ordering of two attribute sets of differing
\* length, and the closure of an attribute set under FDs of another length,
\* raise LengthMismatch instead of producing a value.
C15_LengthMismatchFailsFast ==
    /\ (/\ call.fn \in {"BinaryWord.__and__", "BinaryWord.__or__", "BinaryWord.__xor__",
                        "BinaryWord.__eq__", "BinaryWord.__lt__"}
        /\ call.self.length # call.other.length)
           => ret.raised = "LengthMismatch"
    /\ (/\ Called("attribute_closure of any length")
        /\ fds # <<>>
        /\ call.attribute_set.length # num_attributes)
           => ret.raised = "LengthMismatch"

\* C16: candidate_keys and sigma_plus_limited return normally on an FD list
\* with zero elements, and so does all_minimal_covers_binary when every FD of
\* its input is trivial and sigma_plus_limited is to receive the empty list.
C16_EmptyListIsNotAnError ==
    /\ (call.fn \in {"candidate_keys", "sigma_plus_limited"} /\ fds = <<>>)
           => ret.raised = "no"
    /\ (Called("all_minimal_covers_binary") /\ non_trivial(fds) = <<>>)
           => ret.raised = "no"

\* C17: the list sigma_plus_limited returns has no FD whose left side is a
\* proper superset of the left side of a returned FD whose right side is all
\* attributes: supersets of a discovered key were pruned.
C17_SupersetsOfKeysPruned ==
    (Called("sigma_plus_limited") /\ ret.raised = "no" /\ non_trivial(fds) # <<>>) =>
        \A j, k \in 1 .. Len(ret.value) :
            ~(/\ bw_eq(ret.value[k][2], ones(ret.value[k][2]))
              /\ is_proper_subset_of(ret.value[k][1], ret.value[j][1]))

\* The subsets of the non-trivial FDs of F that are equivalent to F and have
\* no proper subset equivalent to F.
SubsetMinimalVariants(F) ==
    LET closure_F == [S \in SUBSET Attrs |-> LeastClosure(S, ToSet(F))]
        candidates == {V \in SUBSET ToSet(non_trivial(F)) :
                          \A S \in SUBSET Attrs : LeastClosure(S, V) = closure_F[S]}
    IN  {V \in candidates : \A W \in candidates : ~(W \subseteq V /\ W # V)}

\* C18: minimize_right_explode(F) returns exactly the subset-minimal variants:
\* the subsets of the non-trivial FDs of F that are equivalent to F and have no
\* proper subset equivalent to F; no returned variant contains or equals
\* another one.
C18_RightExplodeSubsetMinimal ==
    Called("minimize_right_explode") =>
        /\ ret.raised = "no"
        /\ {ToSet(ret.value[k]) : k \in 1 .. Len(ret.value)} = SubsetMinimalVariants(call.fds)
        /\ \A j, k \in 1 .. Len(ret.value) :
               j # k => ~(ToSet(ret.value[j]) \subseteq ToSet(ret.value[k]))

\* Two variants are returned, one of two or more FDs, from a list in which
\* three or more FDs could each be dropped, so that raw variants were removed.
C18_Witness ==
    /\ Called("minimize_right_explode")
    /\ Len(ret.value) >= 2
    /\ \E k \in 1 .. Len(ret.value) : Len(ret.value[k]) >= 2
    /\ LET new_fds == non_trivial(call.fds)
       IN  Len(RightExplodeFrom(new_fds, <<new_fds>>, 1)) > 2 * Len(ret.value)

\* The steps of minimize_left_explode end as the function ends.
LeftExplodeStepsAgree ==
    (InLeftExplode("done") \/ InLeftExplode("raised")) =>
        ret = minimize_left_explode(call.fds)

\* The minimal subsets S of the left side with the right side inside the
\* closure of S under the variant.
MinimalImplyingSubsets(left, right, variant) ==
    LET implying == {S \in SUBSET Bits(left) :
                        Bits(right) \subseteq LeastClosure(S, ToSet(variant))}
    IN  {S \in implying : \A T \in implying : ~(T \subseteq S /\ T # S)}

\* C19: for every position and variant that minimize_left_explode processes,
\* the replacement left sides are computed, and they are exactly the minimal
\* subsets of the FD's left side, the empty set included, that imply its right
\* side in that variant.
C19_ReplacementsAreAllMinimalSubsets ==
    Called("minimize_left_explode") =>
        /\ call.pc # "raised"
        /\ call.last # None =>
               {Bits(call.last.possible[k]) : k \in 1 .. Len(call.last.possible)} =
                   MinimalImplyingSubsets(call.last.left, call.last.right,
                                          call.last.variant)

\* C20: a pass over a variant whose FD at position i has several minimal
\* replacements does not end the call, and for each replacement such a pass
\* found the returned list has a variant with that replacement at position i
\* that agrees with the processed variant at every position before i.
C20_EachReplacementInItsOwnCopy ==
    /\ InLeftExplode("raised") =>
           Cardinality(MinimalImplyingSubsets(
               call.left, call.right, Variants(call.st)[call.variant_index])) < 2
    /\ InLeftExplode("done") =>
           \A f \in 1 .. Len(call.forks) :
               LET pass == call.forks[f]
               IN  \A k \in 1 .. Len(pass.possible) :
                       \E v \in 1 .. Len(ret.value) :
                           /\ ret.value[v][pass.i] = <<pass.possible[k], pass.right>>
                           /\ \A p \in 1 .. pass.i - 1 :
                                  ret.value[v][p] = pass.variant[p]

\* The scans of attribute_closure return what the function returns, after as
\* many scans as its loop makes.
ClosureScansAgree ==
    InClosureScans("done") =>
        /\ ret = Return(attribute_closure(call.attribute_set, call.fds, call.exclude))
        /\ call.scans = ClosureLoop(call.attribute_set, call.fds, call.exclude, 0).scans

\* C21: attribute_closure runs to completion: every scan except the last
\* strictly enlarges the closure, the loop makes at most n + 1 scans over n
\* attributes, and the call returns.
C21_ClosureRunsToCompletion ==
    /\ [](Called("attribute_closure, scan by scan") => call.scans <= num_attributes + 1)
    /\ [][(/\ Called("attribute_closure, scan by scan")
           /\ call'.fn = "attribute_closure, scan by scan"
           /\ call'.scans = call.scans + 1
           /\ call'.has_changed)
              => is_proper_subset_of(call.attr_closure, call'.attr_closure)]_vars
    /\ (Called("attribute_closure, scan by scan") ~> InClosureScans("done"))

\* A call over two attributes returned after three scans, the most the claim
\* allows: two scans enlarged the closure and the third added nothing.
C21_Witness ==
    /\ InClosureScans("done")
    /\ num_attributes = 2
    /\ call.scans = 3
    /\ pop_count(ret.value) = pop_count(call.attribute_set) + 2

\* The statements of NormalFormChecker.is_3nf and is_2nf followed one by one
\* in run leave what the methods leave: the stored candidate keys and the results.
RunStepsAgree ==
    InRun("return") =>
        /\ call.result_bcnf = checker_is_bcnf(num_attributes, fds).value
        /\ "is_3nf" \in ToSet(call.calls) =>
              /\ self_candidates = checker_is_3nf(fds, NoCandidates).candidates
              /\ call.result_3nf = checker_is_3nf(fds, NoCandidates).ret.value
        /\ "is_2nf" \in ToSet(call.calls) =>
              call.result_2nf = checker_is_2nf(fds, self_candidates).value

\* C22: FDSampleRushResult.run completes without an error for every FD list,
\* the empty one included: candidate_keys is never called with an empty list,
\* the candidate keys that is_3nf reduces are never an empty set, and is_2nf is
\* only called once is_3nf has stored the candidate keys.
C22_RunCompletes ==
    /\ [](Called("FDSampleRushResult.run") =>
             /\ call.pc # "raised"
             /\ <<>> \notin call.candidate_keys_of
             /\ self_candidates.assigned => self_candidates.keys # {})
    /\ [][(/\ Called("FDSampleRushResult.run")
           /\ call'.fn = "FDSampleRushResult.run"
           /\ call'.calls = Append(call.calls, "is_2nf"))
              => /\ self_candidates.assigned
                 /\ call.calls = <<"is_bcnf", "is_3nf">>]_vars
    /\ (Called("FDSampleRushResult.run") ~> InRun("done"))

\* A run that went through all three methods and is about to return: the list
\* is neither in BCNF nor in 3NF, so is_3nf stored the candidate keys in run's
\* checker and is_2nf read them.
C22_Witness ==
    /\ InRun("return")
    /\ call.calls = <<"is_bcnf", "is_3nf", "is_2nf">>
    /\ call.candidate_keys_of = {fds}
    /\ self_candidates.assigned
    /\ ~call.result_3nf
    /\ call.result_2nf

\* C23: in minimize_left_explode, when the loop over the positions starts
\* position i, every variant has the length of the non-trivial input list and
\* holds from position i on the FDs of that list; a pass of the loop over the
\* variants replaces the FD at position i: it leaves every other variant that
\* existed as it was, writes the first replacement at position i of the
\* processed variant and gives every new variant the processed one's FDs
\* except at position i; and the list the caller passed is never modified.
C23_VariantsAreSeparateLists ==
    /\ [](InLeftExplode("position") =>
             \A v \in 1 .. Len(call.st.variants) :
                 /\ Len(Variants(call.st)[v]) = Len(non_trivial(call.fds))
                 /\ \A p \in call.i .. Len(non_trivial(call.fds)) :
                        Variants(call.st)[v][p] = non_trivial(call.fds)[p])
    /\ [](Called("minimize_left_explode") => call.st.heap[1] = call.fds)
    /\ [][(InLeftExplode("variant") /\ call'.fn = "minimize_left_explode") =>
             /\ call'.pc # "raised"
             /\ \A v \in 1 .. Len(call.st.variants) :
                    v # call.variant_index => Variants(call.st)'[v] = Variants(call.st)[v]
             /\ \A p \in 1 .. Len(non_trivial(call.fds)) :
                    Variants(call.st)'[call.variant_index][p] =
                        IF p = call.i /\ call'.last.possible # <<>>
                        THEN <<call'.last.possible[1], call.right>>
                        ELSE Variants(call.st)[call.variant_index][p]
             /\ \A v \in Len(call.st.variants) + 1 .. Len(call'.st.variants) :
                    \A p \in 1 .. Len(non_trivial(call.fds)) :
                        p # call.i =>
                            Variants(call.st)'[v][p] = Variants(call.st)[call.variant_index][p]
          ]_vars

\* What holds of the list objects on every call: the variants keep the length
\* and, from position i on, the FDs of the non-trivial input list, and the
\* list the caller passed is never modified.
LeftExplodeListsKept ==
    /\ InLeftExplode("position") =>
           \A v \in 1 .. Len(call.st.variants) :
               /\ Len(Variants(call.st)[v]) = Len(non_trivial(call.fds))
               /\ \A p \in call.i .. Len(non_trivial(call.fds)) :
                      Variants(call.st)[v][p] = non_trivial(call.fds)[p]
    /\ Called("minimize_left_explode") => call.st.heap[1] = call.fds
=============================================================================
